---- MODULE Spec2Model ----
(***************************************************************************)
(* Model of the two deployment scripts of qb-pharma:                       *)
(*   deploy_simple.py  (create_archive, main)                              *)
(*   upload.py         (run_command, create_build_archive,                 *)
(*                      upload_and_deploy, __main__)                       *)
(* A behaviour is a sequence of runs of one of the two scripts against a   *)
(* file system (build directory, temporary directory, working directory)   *)
(* and a hosting endpoint that answers the single curl invocation.         *)
(***************************************************************************)
EXTENDS Integers, Sequences, FiniteSets, TLC

\* ---------------------------------------------------------------- bounds
MaxRuns == 2
MaxEntries == 3

\* ------------------------------------------------------------- constants
BUILD_DIR == <<"frontend", "dist">>
SERVER_IP == "209.38.78.122"

Variants == {"deploy_simple", "upload"}
None == "None"

\* ------------------------------------------------------------ file system
\* Kinds of directory entries: a regular file, a directory, a symbolic link
\* that resolves to a regular file, and anything else (fifo, socket, broken
\* symbolic link, symbolic link to a directory).
Kinds == {"file", "dir", "symlink_file", "other"}

\* Paths below the build directory that a build may contain.
CandidateRel ==
  { <<"index.html">>, <<"assets">>, <<"assets", "app.js">>,
    <<"assets", "index.html">>, <<"assets", "img">>,
    <<"assets", "img", "logo.png">> }

\* Entries of the project that lie outside the build directory.
OutsideEntries ==
  (<<"frontend">> :> "dir") @@ (<<"frontend", "dist">> :> "dir")
    @@ (<<"frontend", "package.json">> :> "file")

Parent(p) == SubSeq(p, 1, Len(p) - 1)

\* Well-formed build trees: every entry's parent is a directory of the tree.
WellFormed(t) ==
  \A p \in DOMAIN t :
    Len(p) > 1 => (Parent(p) \in DOMAIN t /\ t[Parent(p)] = "dir")

Trees ==
  { t \in UNION { [S -> Kinds] : S \in { X \in SUBSET CandidateRel :
                                           Cardinality(X) <= MaxEntries } } :
      WellFormed(t) }

\* The file system with the build tree t mounted at BUILD_DIR.
Mount(t) ==
  [ p \in DOMAIN OutsideEntries \cup { BUILD_DIR \o r : r \in DOMAIN t } |->
      IF p \in DOMAIN OutsideEntries THEN OutsideEntries[p]
      ELSE t[SubSeq(p, Len(BUILD_DIR) + 1, Len(p))] ]

\* The build of the end-to-end scenario: index.html and assets/app.js.
ScenarioTree ==
  (<<"index.html">> :> "file") @@ (<<"assets">> :> "dir")
    @@ (<<"assets", "app.js">> :> "file")

DemoTrees == { ScenarioTree }

\* ------------------------------------------------- pathlib / tarfile helpers
IsPrefix(b, p) == Len(b) <= Len(p) /\ SubSeq(p, 1, Len(b)) = b

\* Path.rglob('*'): every entry strictly below base, files and non-files.
rglob(fs, base) ==
  { p \in DOMAIN fs : IsPrefix(base, p) /\ Len(p) > Len(base) }

\* Path.is_file(): follows symbolic links.
is_file(fs, p) == fs[p] \in {"file", "symlink_file"}

\* A relative_to that keeps the file name only.
relative_to_NameOnly(p, base) == SubSeq(p, Len(p), Len(p))

\* Path.relative_to(base)
relative_to(p, base) == SubSeq(p, Len(base) + 1, Len(p))

\* The body of the tar-writing loop over a set of paths, in iteration order.
RECURSIVE TarLoop(_, _, _, _)
TarLoop(fs, base, todo, tar) ==
  IF todo = {} THEN tar
  ELSE LET file_path == CHOOSE x \in todo : TRUE
       IN  TarLoop(fs, base, todo \ {file_path},
                   IF is_file(fs, file_path)
                     THEN Append(tar, relative_to(file_path, base))
                     ELSE tar)

\* The members of the archive written for the build directory.
TarMembers(fs) == TarLoop(fs, BUILD_DIR, rglob(fs, BUILD_DIR), <<>>)

\* ------------------------------------------------------ hosting endpoint
Urls == { "https://example.test/abc123", "https://example.test/def456" }

\* Response bodies, as sequences of text tokens.
Empty == <<>>
Blank == << "\n" >>
Html == << "<html>502 Bad Gateway</html>", "\n" >>
JsonList == << "[]" >>
JsonFail == << "{\"success\":false,\"status\":429}" >>
JsonOk(u) == << "{\"success\":true,\"link\":\"", u, "\"}" >>
Plain(u) == << u, "\n" >>

\* Bodies the endpoint may send with a success status and with an error
\* status (an error status never carries a retrieval URL).
OkBodies ==
  { Empty, Blank, Html, JsonList, JsonFail }
    \cup { JsonOk(u) : u \in Urls } \cup { Plain(u) : u \in Urls }
ErrorBodies == { Empty, Html, JsonFail }

\* What the single curl invocation meets: the network is unreachable, or the
\* endpoint answers with a status and a body.
Responses ==
  { [http |-> "unreachable", body |-> Empty] }
    \cup { [http |-> "ok", body |-> b] : b \in OkBodies }
    \cup { [http |-> "error", body |-> b] : b \in ErrorBodies }

\* curl without --fail: exit status 0 whenever the server answered, whatever
\* the HTTP status; the body goes to stdout.
curl(resp) ==
  IF resp.http = "unreachable"
    THEN [returncode |-> 6, stdout |-> Empty, stderr |-> "curl: (6) Could not resolve host"]
    ELSE [returncode |-> 0, stdout |-> resp.body, stderr |-> ""]

\* run_command of upload.py: (success, stdout, stderr); an exception of
\* subprocess.run becomes (False, "", str(e)).
run_command(resp, raises) ==
  IF raises
    THEN [success |-> FALSE, stdout |-> Empty, stderr |-> "exception"]
    ELSE LET r == curl(resp)
         IN  [success |-> (r.returncode = 0), stdout |-> r.stdout, stderr |-> r.stderr]

\* json.loads
json_loads(s) ==
  IF s = JsonFail THEN [type |-> "dict", success |-> FALSE, link |-> <<>>]
  ELSE IF \E u \in Urls : s = JsonOk(u)
    THEN [type |-> "dict", success |-> TRUE, link |-> << s[2] >>]
  ELSE IF s = JsonList THEN [type |-> "list", success |-> FALSE, link |-> <<>>]
  ELSE [type |-> "JSONDecodeError", success |-> FALSE, link |-> <<>>]

\* str.strip(): drops leading and trailing whitespace tokens.
RECURSIVE lstrip(_)
lstrip(s) == IF s # <<>> /\ Head(s) = "\n" THEN lstrip(Tail(s)) ELSE s
RECURSIVE rstrip(_)
rstrip(s) ==
  IF s # <<>> /\ s[Len(s)] = "\n" THEN rstrip(SubSeq(s, 1, Len(s) - 1)) ELSE s
strip(s) == rstrip(lstrip(s))

\* --------------------------------------------------------- script templates
\* deploy_simple.py: the f-string written to auto_deploy.sh.
auto_deploy(download_url) ==
  << "#!/bin/bash ... wget -O qb-pharma.tar.gz \"" >> \o download_url \o
  << "\" ... server_name ", SERVER_IP, "; ... echo Access at: http://",
     SERVER_IP, "\n" >>

\* upload.py: the f-string deploy_script written to the temporary .sh file.
deploy_script(archive) ==
  << "#!/bin/bash ... curl -o qb-pharma.tar.gz \"https://transfer.sh/$(basename " >>
    \o archive \o
  << ")\" ... server_name ", SERVER_IP, "; ... available at: http://",
     SERVER_IP, "\n" >>

\* upload.py: the f-string simple_deploy written to simple_deploy.sh.
simple_deploy(download_url) ==
  << "#!/bin/bash set -e ... wget -O qb-pharma.tar.gz \"" >> \o download_url \o
  << "\" ... server_name ", SERVER_IP, "; ... deployed at http://",
     SERVER_IP, "\n" >>

\* The deploy script file of each variant, in the working directory.
ScriptFile(v) == IF v = "deploy_simple" THEN "auto_deploy.sh" ELSE "simple_deploy.sh"

\* tempfile.NamedTemporaryFile: the names it may return.
TmpIds == 1 .. MaxRuns
ArchiveName(n) == << "/tmp/tmp", ToString(n), ".tar.gz" >>
ShName(n) == << "/tmp/tmp", ToString(n), ".sh" >>

\* ------------------------------------------------------------------ state
VARIABLES
  variant,      \* which script the runs execute
  pc,           \* position of the current run
  run,          \* number of runs started
  buildTree,    \* the build output, when it is present
  fs,           \* project file system: path -> kind
  archives,     \* temporary directory, *.tar.gz: name -> [members, complete]
  tmpScripts,   \* temporary directory, *.sh: name -> text
  cwd,          \* working directory: deploy script name -> text
  archive_path, \* local of main / upload_and_deploy; <<>> is None
  result,       \* what the upload call returned: [success, stdout, stderr]
  download_url, \* local download_url; <<>> before it is assigned
  out,          \* messages printed by the current run
  ret,          \* return value of main / upload_and_deploy
  pendingExc,   \* an exception is propagating out of the try block
  exitStatus,   \* exit status of the process; -1 while it runs
  uncaught,     \* the process ended with an uncaught exception
  tmpArchive,   \* history: name of the archive file this run created
  tmpScript,    \* history: name of the temporary .sh file this run created
  resp,         \* history: what the endpoint answered in this run
  trace,        \* history: the effects of this run, in order
  rendered,     \* history: the script texts this run rendered, in order
  runsLog,      \* history: [url, texts] of every run that wrote its script
  lastGood,     \* history: text of the most recent completed script write
  tornWrite,    \* history: a write failed after truncating, and none completed since
  raised        \* history: an exception was raised in this run

vars ==
  << variant, pc, run, buildTree, fs, archives, tmpScripts, cwd, archive_path,
     result, download_url, out, ret, pendingExc, exitStatus, uncaught,
     tmpArchive, tmpScript, resp, trace, rendered, runsLog, lastGood,
     tornWrite, raised >>

disk == << archives, tmpScripts, cwd >>
locals == << archive_path, result, download_url, ret >>
hist == << tmpArchive, tmpScript, resp, rendered, runsLog, lastGood, tornWrite >>

\* The project without a build: ./frontend/dist does not exist.
NoBuild ==
  (<<"frontend">> :> "dir") @@ (<<"frontend", "package.json">> :> "file")

\* An existence check that always succeeds.
exists_Always(f, p) == TRUE

exists(f, p) == p \in DOMAIN f

NoResult == [success |-> FALSE, stdout |-> Empty, stderr |-> ""]
NoResp == [http |-> "none", body |-> Empty]

InitWith(trees) ==
  /\ variant \in Variants
  /\ pc = "idle"
  /\ run = 0
  /\ buildTree \in trees
  /\ fs = NoBuild
  /\ archives = << >>
  /\ tmpScripts = << >>
  /\ cwd = << >>
  /\ archive_path = <<>>
  /\ result = NoResult
  /\ download_url = <<>>
  /\ out = {}
  /\ ret = None
  /\ pendingExc = FALSE
  /\ exitStatus = -1
  /\ uncaught = FALSE
  /\ tmpArchive = <<>>
  /\ tmpScript = <<>>
  /\ resp = NoResp
  /\ trace = <<>>
  /\ rendered = <<>>
  /\ runsLog = {}
  /\ lastGood = <<>>
  /\ tornWrite = FALSE
  /\ raised = FALSE

Init == InitWith(DemoTrees)

\* The process is started (python deploy_simple.py / python upload.py); the
\* build output is present or not.
StartRun ==
  /\ pc \in {"idle", "exited"}
  /\ run < MaxRuns
  /\ run' = run + 1
  /\ fs' \in { Mount(buildTree), NoBuild }
  /\ pc' = "create_archive"
  /\ archive_path' = <<>>
  /\ result' = NoResult
  /\ download_url' = <<>>
  /\ out' = {}
  /\ ret' = None
  /\ pendingExc' = FALSE
  /\ exitStatus' = -1
  /\ uncaught' = FALSE
  /\ tmpArchive' = <<>>
  /\ tmpScript' = <<>>
  /\ resp' = NoResp
  /\ trace' = <<>>
  /\ rendered' = <<>>
  /\ UNCHANGED << variant, buildTree, disk, runsLog, lastGood >>
  /\ raised' = FALSE
  /\ UNCHANGED tornWrite

\* create_archive / create_build_archive, the existence check, and the
\* caller's "if not archive_path: return".
BuildDirMissing ==
  /\ pc = "create_archive"
  /\ ~ exists(fs, BUILD_DIR)
  /\ out' = out \cup {"build_dir_not_found"}
  /\ ret' = IF variant = "upload" THEN "False" ELSE None
  /\ pc' = "main_end"
  /\ UNCHANGED << variant, run, buildTree, fs, disk, archive_path, result,
                  download_url, pendingExc, exitStatus, uncaught, hist, trace >>
  /\ UNCHANGED raised

\* tempfile.NamedTemporaryFile(suffix='.tar.gz', delete=False): an empty file
\* under a name that is not in use.
MakeTempArchive ==
  /\ pc = "create_archive"
  /\ exists(fs, BUILD_DIR)
  /\ \E n \in TmpIds :
       /\ ArchiveName(n) \notin DOMAIN archives
       /\ archives' = archives @@ (ArchiveName(n) :> [members |-> <<>>, complete |-> FALSE])
       /\ tmpArchive' = ArchiveName(n)
  /\ trace' = Append(trace, "tmp_archive_created")
  /\ pc' = "tar"
  /\ UNCHANGED << variant, run, buildTree, fs, tmpScripts, cwd, locals, out,
                  pendingExc, exitStatus, uncaught, tmpScript, resp, rendered,
                  runsLog, lastGood >>
  /\ UNCHANGED raised
  /\ UNCHANGED tornWrite

\* The tar-writing loop runs to its end and the path is returned.
TarWritten ==
  /\ pc = "tar"
  /\ archives' = [archives EXCEPT ![tmpArchive] =
                    [members |-> TarMembers(fs), complete |-> TRUE]]
  /\ archive_path' = tmpArchive
  /\ out' = out \cup {"archive_created"}
  /\ trace' = Append(trace, "archive_created")
  /\ pc' = IF variant = "upload" THEN "render_tmp" ELSE "upload"
  /\ UNCHANGED << variant, run, buildTree, fs, tmpScripts, cwd, result,
                  download_url, ret, pendingExc, exitStatus, uncaught, hist >>
  /\ UNCHANGED raised

\* tarfile.open or tar.add raises (unreadable file, full disk): the call is
\* outside the try block, so the exception ends the process.
TarRaises ==
  /\ pc = "tar"
  /\ uncaught' = TRUE
  /\ exitStatus' = 1
  /\ pc' = "exited"
  /\ UNCHANGED << variant, run, buildTree, fs, disk, locals, out, pendingExc,
                  hist, trace >>
  /\ raised' = TRUE

\* An exception raised inside the try block. upload.py: the except clause
\* prints it and returns False. deploy_simple.py: there is no except clause,
\* the exception propagates once the finally clause has run.
RaiseInTry ==
  /\ pc' = "finally"
  /\ IF variant = "upload"
       THEN /\ out' = out \cup {"deployment_failed_exception"}
            /\ ret' = "False"
            /\ pendingExc' = FALSE
       ELSE /\ pendingExc' = TRUE
            /\ UNCHANGED << out, ret >>

\* upload.py: deploy_script is rendered from archive_path and saved to a
\* temporary .sh file created with delete=False.
SaveTmpScript ==
  /\ pc = "render_tmp"
  /\ \E n \in TmpIds :
       /\ ShName(n) \notin DOMAIN tmpScripts
       /\ tmpScripts' = tmpScripts @@ (ShName(n) :> deploy_script(archive_path))
       /\ tmpScript' = ShName(n)
  /\ rendered' = Append(rendered, deploy_script(archive_path))
  /\ trace' = Append(trace, "tmp_script_written")
  /\ pc' = "upload"
  /\ UNCHANGED << variant, run, buildTree, fs, archives, cwd, locals, out,
                  pendingExc, exitStatus, uncaught, tmpArchive, resp, runsLog,
                  lastGood >>
  /\ UNCHANGED raised
  /\ UNCHANGED tornWrite

\* upload.py: creating or writing the temporary .sh file raises; the file is
\* not there, or is there without its text.
SaveTmpScriptRaises ==
  /\ pc = "render_tmp"
  /\ \/ UNCHANGED << tmpScripts, tmpScript >>
     \/ \E n \in TmpIds :
          /\ ShName(n) \notin DOMAIN tmpScripts
          /\ tmpScripts' = tmpScripts @@ (ShName(n) :> <<>>)
          /\ tmpScript' = ShName(n)
  /\ RaiseInTry
  /\ UNCHANGED << variant, run, buildTree, fs, archives, cwd, archive_path,
                  result, download_url, exitStatus, uncaught, tmpArchive, resp,
                  rendered, runsLog, lastGood, trace >>
  /\ raised' = TRUE
  /\ UNCHANGED tornWrite

\* An upload step that has already opened the deploy script for writing.
Upload_OpensScript ==
  /\ pc = "upload"
  /\ \E r \in Responses :
       /\ resp' = r
       /\ result' = IF variant = "upload"
                      THEN run_command(r, FALSE)
                      ELSE [success |-> (curl(r).returncode = 0),
                            stdout |-> curl(r).stdout, stderr |-> curl(r).stderr]
  /\ cwd' = (ScriptFile(variant) :> <<>>) @@ cwd
  /\ trace' = Append(trace, "upload")
  /\ pc' = "check"
  /\ UNCHANGED << variant, run, buildTree, fs, archives, tmpScripts,
                  archive_path, download_url, out, ret, pendingExc, exitStatus,
                  uncaught, tmpArchive, tmpScript, rendered, runsLog, lastGood,
                  raised, tornWrite >>

\* The single upload attempt: subprocess.run of curl (deploy_simple.py) or
\* run_command of curl (upload.py).
Upload ==
  /\ pc = "upload"
  /\ \E r \in Responses :
       /\ resp' = r
       /\ result' = IF variant = "upload"
                      THEN run_command(r, FALSE)
                      ELSE [success |-> (curl(r).returncode = 0),
                            stdout |-> curl(r).stdout, stderr |-> curl(r).stderr]
  /\ trace' = Append(trace, "upload")
  /\ pc' = "check"
  /\ UNCHANGED << variant, run, buildTree, fs, disk, archive_path,
                  download_url, out, ret, pendingExc, exitStatus, uncaught,
                  tmpArchive, tmpScript, rendered, runsLog, lastGood >>
  /\ UNCHANGED << raised, tornWrite >>

\* subprocess.run itself raises. run_command turns that into a failed
\* result; deploy_simple.py lets it propagate.
UploadRaises ==
  /\ pc = "upload"
  /\ resp' = [http |-> "exception", body |-> Empty]
  /\ trace' = Append(trace, "upload")
  /\ IF variant = "upload"
       THEN /\ result' = run_command(resp', TRUE)
            /\ pc' = "check"
            /\ UNCHANGED << out, ret, pendingExc >>
       ELSE /\ RaiseInTry
            /\ UNCHANGED result
  /\ UNCHANGED << variant, run, buildTree, fs, disk, archive_path,
                  download_url, exitStatus, uncaught, tmpArchive, tmpScript,
                  rendered, runsLog, lastGood >>
  /\ raised' = TRUE
  /\ UNCHANGED tornWrite

\* deploy_simple.py: the returncode test, json.loads and the success/link test.
CheckSimple ==
  /\ pc = "check"
  /\ variant = "deploy_simple"
  /\ LET response == json_loads(result.stdout)
     IN  IF ~ result.success
           THEN /\ out' = out \cup {"upload_failed"}
                /\ pc' = "finally"
                /\ UNCHANGED << download_url, ret, pendingExc, raised >>
         ELSE IF response.type = "JSONDecodeError"
           THEN /\ out' = out \cup {"upload_successful", "could_not_parse"}
                /\ pc' = "finally"
                /\ UNCHANGED << download_url, ret, pendingExc, raised >>
         ELSE IF response.type # "dict"
           THEN \* response.get: AttributeError
                /\ pc' = "finally"
                /\ pendingExc' = TRUE
                /\ raised' = TRUE
                /\ out' = out \cup {"upload_successful"}
                /\ UNCHANGED << download_url, ret >>
         ELSE IF response.success /\ response.link # <<>>
           THEN /\ download_url' = response.link
                /\ out' = out \cup {"upload_successful", "download_url"}
                /\ pc' = "write"
                /\ UNCHANGED << ret, pendingExc, raised >>
         ELSE /\ out' = out \cup {"upload_successful"}
              /\ pc' = "finally"
              /\ UNCHANGED << download_url, ret, pendingExc, raised >>
  /\ UNCHANGED << variant, run, buildTree, fs, disk, archive_path, result,
                  exitStatus, uncaught, hist, trace >>

\* upload.py: "if success and stdout.strip()".
CheckUpload ==
  /\ pc = "check"
  /\ variant = "upload"
  /\ IF result.success /\ strip(result.stdout) # <<>>
       THEN /\ download_url' = strip(result.stdout)
            /\ out' = out \cup {"archive_uploaded"}
            /\ pc' = "write"
            /\ UNCHANGED ret
       ELSE /\ out' = out \cup {"failed_to_upload"}
            /\ ret' = "False"
            /\ pc' = "finally"
            /\ UNCHANGED download_url
  /\ UNCHANGED << variant, run, buildTree, fs, disk, archive_path, result,
                  pendingExc, exitStatus, uncaught, hist, trace >>
  /\ UNCHANGED raised

\* The text a run writes to its deploy script file.
DeployText(v, url) ==
  IF v = "deploy_simple" THEN auto_deploy(url) ELSE simple_deploy(url)

\* with open(<script>, 'w') as f: f.write(<text>)
WriteScript ==
  /\ pc = "write"
  /\ LET text == DeployText(variant, download_url)
     IN  /\ cwd' = (ScriptFile(variant) :> text) @@ cwd
         /\ rendered' = Append(rendered, text)
         /\ runsLog' = runsLog \cup {[url |-> download_url, texts |-> Append(rendered, text)]}
         /\ lastGood' = text
  /\ trace' = Append(trace, "script_written")
  /\ pc' = "print"
  /\ UNCHANGED << variant, run, buildTree, fs, archives, tmpScripts, locals,
                  out, pendingExc, exitStatus, uncaught, tmpArchive, tmpScript,
                  resp >>
  /\ UNCHANGED raised
  /\ tornWrite' = FALSE

\* open(..., 'w') raises and leaves the file alone, or the write raises after
\* open has truncated the file.
WriteScriptRaises ==
  /\ pc = "write"
  /\ \/ UNCHANGED << cwd, tornWrite >>
     \/ /\ cwd' = (ScriptFile(variant) :> <<>>) @@ cwd
        /\ tornWrite' = TRUE
  /\ rendered' = Append(rendered, DeployText(variant, download_url))
  /\ RaiseInTry
  /\ UNCHANGED << variant, run, buildTree, fs, archives, tmpScripts,
                  archive_path, result, download_url, exitStatus, uncaught,
                  tmpArchive, tmpScript, resp, runsLog, lastGood, trace >>
  /\ raised' = TRUE

\* The operator instructions are printed; upload.py returns True.
PrintInstructions ==
  /\ pc = "print"
  /\ out' = out \cup {"script_created"}
  /\ ret' = IF variant = "upload" THEN "True" ELSE None
  /\ pc' = "finally"
  /\ UNCHANGED << variant, run, buildTree, fs, disk, archive_path, result,
                  download_url, pendingExc, exitStatus, uncaught, hist, trace >>
  /\ UNCHANGED raised

\* A print after the write raises (an output stream that cannot encode the
\* text, a closed pipe).
PrintRaises ==
  /\ pc = "print"
  /\ RaiseInTry
  /\ UNCHANGED << variant, run, buildTree, fs, disk, archive_path, result,
                  download_url, exitStatus, uncaught, hist, trace >>
  /\ raised' = TRUE

\* A cleanup that removes the temporary .sh file together with the archive.
Finally_RemovesTmpScript ==
  /\ pc = "finally"
  /\ IF archive_path # <<>> /\ archive_path \in DOMAIN archives
       THEN archives' = [n \in DOMAIN archives \ {archive_path} |-> archives[n]]
       ELSE UNCHANGED archives
  /\ tmpScripts' = [n \in DOMAIN tmpScripts \ {tmpScript} |-> tmpScripts[n]]
  /\ pc' = "main_end"
  /\ UNCHANGED << variant, run, buildTree, fs, cwd, locals, out, pendingExc,
                  exitStatus, uncaught, tmpArchive, tmpScript, resp, rendered,
                  runsLog, lastGood, tornWrite, trace, raised >>

\* finally: if archive_path and os.path.exists(archive_path): os.unlink(...)
Finally ==
  /\ pc = "finally"
  /\ IF archive_path # <<>> /\ archive_path \in DOMAIN archives
       THEN archives' = [n \in DOMAIN archives \ {archive_path} |-> archives[n]]
       ELSE UNCHANGED archives
  /\ pc' = "main_end"
  /\ UNCHANGED << variant, run, buildTree, fs, tmpScripts, cwd, locals, out,
                  pendingExc, exitStatus, uncaught, hist, trace >>
  /\ UNCHANGED raised

\* The end of the process. deploy_simple.py: main() returned (status 0) or
\* an exception left it (status 1). upload.py: sys.exit(1) unless
\* upload_and_deploy returned True.
MainEnd ==
  /\ pc = "main_end"
  /\ IF variant = "deploy_simple"
       THEN /\ exitStatus' = IF pendingExc THEN 1 ELSE 0
            /\ uncaught' = pendingExc
            /\ UNCHANGED out
       ELSE /\ exitStatus' = IF ret = "True" THEN 0 ELSE 1
            /\ out' = out \cup {IF ret = "True" THEN "completed" ELSE "deployment_failed"}
            /\ UNCHANGED uncaught
  /\ pc' = "exited"
  /\ UNCHANGED << variant, run, buildTree, fs, disk, locals, pendingExc, hist,
                  trace >>
  /\ UNCHANGED raised

Next ==
  \/ StartRun
  \/ BuildDirMissing
  \/ MakeTempArchive
  \/ TarWritten
  \/ TarRaises
  \/ SaveTmpScript
  \/ SaveTmpScriptRaises
  \/ Upload
  \/ UploadRaises
  \/ CheckSimple
  \/ CheckUpload
  \/ WriteScript
  \/ WriteScriptRaises
  \/ PrintInstructions
  \/ PrintRaises
  \/ Finally
  \/ MainEnd

Spec == Init /\ [][Next]_vars

\* Archive creation alone, over every build tree of up to MaxEntries entries.
InitArchive == InitWith(Trees)

NextArchive ==
  \/ StartRun
  \/ BuildDirMissing
  \/ MakeTempArchive
  \/ TarWritten
  \/ TarRaises
  \/ MainEnd

SpecArchive == InitArchive /\ [][NextArchive]_vars

\* ----------------------------------------------------------------- claims
InTrace(e) == \E i \in DOMAIN trace : trace[i] = e

Range(q) == { q[i] : i \in DOMAIN q }

Exited == pc = "exited"

\* C1: once the process has exited, the temporary archive file the run
\* created is not on disk, whichever step failed.
C1_ArchiveGoneAtExit ==
  (Exited /\ tmpArchive # <<>>) => tmpArchive \notin DOMAIN archives

\* C2: when the build directory does not exist at the start of a run, the run
\* invokes no upload, creates no temporary file, writes no deploy script, and
\* ends having reported the missing directory.
C2_MissingBuildDir ==
  (pc # "idle" /\ BUILD_DIR \notin DOMAIN fs) =>
     /\ ~ InTrace("upload")
     /\ tmpArchive = <<>> /\ tmpScript = <<>>
     /\ ~ InTrace("script_written") /\ ~ InTrace("tmp_script_written")
     /\ (pc \in {"main_end", "exited"} => "build_dir_not_found" \in out)

C2_Witness ==
  /\ Exited /\ run = 2 /\ BUILD_DIR \notin DOMAIN fs
  /\ "build_dir_not_found" \in out
  /\ lastGood # <<>>

\* The body the variant expects from a successful upload.
WellFormedBody(v, b) ==
  IF v = "deploy_simple" THEN \E u \in Urls : b = JsonOk(u)
                         ELSE \E u \in Urls : b = Plain(u)

UploadFailed ==
  \/ resp.http \in {"error", "unreachable"}
  \/ resp.http = "ok" /\ ~ WellFormedBody(variant, resp.body)

FailureReported ==
  out \cap {"upload_failed", "could_not_parse", "failed_to_upload"} # {}

\* C3: when the upload attempt fails (non-success HTTP status, malformed
\* body, network unreachable), the run reports an upload failure and writes
\* no deploy script file.
C3_UploadFailureNoScript ==
  (Exited /\ UploadFailed) => (FailureReported /\ ~ InTrace("script_written"))

\* C4: a run that did not write the deploy script exits with a non-zero
\* status, and a run that wrote it exits with status zero.
C4_ExitStatus ==
  Exited => (IF InTrace("script_written") THEN exitStatus = 0 ELSE exitStatus # 0)

\* C5: an exception raised in any step is caught and reported, the temporary
\* archive is removed, the exit status is a failure, and no exception leaves
\* the pipeline uncaught.
C5_ExceptionsCaught ==
  (Exited /\ raised) =>
     /\ ~ uncaught
     /\ out \cap {"deployment_failed_exception", "failed_to_upload"} # {}
     /\ (tmpArchive # <<>> => tmpArchive \notin DOMAIN archives)
     /\ exitStatus # 0

\* C6: no deploy script is written to any file before the upload has
\* returned a retrieval URL, and the upload is not started before the archive
\* has been created.
C6_Sequential ==
  \A i \in DOMAIN trace :
     /\ trace[i] \in {"script_written", "tmp_script_written"} =>
          (download_url # <<>> /\ \E j \in 1 .. (i - 1) : trace[j] = "upload")
     /\ trace[i] = "upload" =>
          \E j \in 1 .. (i - 1) : trace[j] = "archive_created"

\* The paths, relative to the build directory, of its regular files, and of
\* the entries is_file() accepts (regular files and links to regular files).
RegularFiles == { r \in DOMAIN buildTree : buildTree[r] = "file" }
FileEntries == { r \in DOMAIN buildTree : buildTree[r] \in {"file", "symlink_file"} }

ArchiveReturned == archive_path # <<>> /\ archive_path \in DOMAIN archives

\* C7 (as stated): the archive has exactly one entry per regular file of the
\* build directory, named by the file's relative path, and no other entry.
C7_OnePerRegularFile ==
  ArchiveReturned =>
     LET m == archives[archive_path].members
     IN  Len(m) = Cardinality(RegularFiles) /\ Range(m) = RegularFiles

\* C7 (amended): the archive has exactly one entry per build directory entry
\* that is a regular file or a symbolic link to one, named by its relative
\* path; directories and other entries produce none.
C7_OnePerFileEntry ==
  ArchiveReturned =>
     LET m == archives[archive_path].members
     IN  /\ archives[archive_path].complete
         /\ Len(m) = Cardinality(FileEntries) /\ Range(m) = FileEntries

C7_Witness ==
  /\ ArchiveReturned
  /\ Len(archives[archive_path].members) = 2
  /\ \E r \in Range(archives[archive_path].members) : Len(r) = 2
  /\ \E r \in DOMAIN buildTree : buildTree[r] = "dir"

\* The values of download_url that are retrieval URLs of the endpoint.
RetrievalUrls == { << u >> : u \in Urls }

\* C8: two runs that obtained the same retrieval URL and wrote their deploy
\* script rendered the same script texts.
C8_SameUrlSameScripts ==
  \A a \in runsLog : \A b \in runsLog :
     (a.url \in RetrievalUrls /\ a.url = b.url) => a.texts = b.texts

\* When some run has completed its write, the deploy script file holds the
\* text of the most recent completed write.
HoldsLastGood ==
  lastGood # <<>> =>
     (ScriptFile(variant) \in DOMAIN cwd /\ cwd[ScriptFile(variant)] = lastGood)

\* The working directory changes only in the script-writing step.
OnlyWriteStepWrites == pc # "write" => cwd' = cwd

C10_TmpScriptLeft ==
  variant = "upload" =>
     /\ \A j \in DOMAIN trace : trace[j] = "upload" =>
          \E i \in 1 .. (j - 1) : trace[i] = "tmp_script_written"
     /\ InTrace("tmp_script_written") =>
          /\ tmpScript \in DOMAIN tmpScripts
          /\ tmpScripts[tmpScript] = deploy_script(tmpArchive)
          /\ (Exited => tmpArchive \notin DOMAIN archives)

C10_Witness ==
  /\ variant = "upload" /\ Exited
  /\ "failed_to_upload" \in out
  /\ tmpScript \in DOMAIN tmpScripts
  /\ tmpArchive # <<>> /\ tmpArchive \notin DOMAIN archives

====
